---- MODULE Spec2Model ----
(***************************************************************************)
(* A model of two parts of PerfKitBenchmarker:                             *)
(*   - perfkitbenchmarker/relational_db.py: BaseRelationalDb (construction,*)
(*     endpoint/port properties, connection strings, the unmanaged MySQL   *)
(*     server bootstrap, _IsReadyUnmanaged, GetResourceMetadata, Failover);*)
(*   - perfkitbenchmarker/linux_benchmarks/iperf3_benchmark.py: Prepare,   *)
(*     _RunIperf (under vm_util.Retry), Run and Cleanup.                   *)
(* The two parts share no state.  SpecDb runs the first and SpecIperf the  *)
(* second; SpecMeta runs construction and GetResourceMetadata over every   *)
(* vm_spec, SpecExtract the stdout parsing of _RunIperf over a set of      *)
(* stdouts.                                                                *)
(***************************************************************************)
EXTENDS Integers, Sequences, FiniteSets, TLC

VARIABLES
  \* ---- relational_db.py ----
  use_managed_db,   \* FLAGS.use_managed_db
  spec_in,          \* the relational_db_spec as the caller built it
  spec,             \* the same object as the resource sees it (self.spec)
  db_state,         \* "new" (before __init__), "constructed", "init_raised"
  is_managed_db,    \* self.is_managed_db
  has_endpoint,     \* hasattr(self, '_endpoint')
  endpoint_,        \* self._endpoint
  has_port,         \* hasattr(self, '_port')
  port_,            \* self._port
  provisioned,      \* the provider has published endpoint and port (Ready)
  boot_state,       \* _InstallMySQLServer: "idle", "running", "done", "raised"
  boot_pc,          \* index of the next RemoteCommand of _InstallMySQLServer
  server_log,       \* what was issued on self.server_vm, in order
  db_last,          \* outcome of the last call on the resource
  failover_requests,\* calls of Failover() so far
  failover_calls,   \* calls of self._FailoverHA() so far
  status_log,       \* what _IsReadyUnmanaged issued on self.server_vm, in order
  use_localhost_arg,\* use_localhost of the last MakeMysqlConnectionString call
  vm_spec,          \* self.spec.vm_spec: which sizing attributes it carries
  mysql_flags,      \* FLAGS.mysql_flags
  metadata,         \* the dict the last GetResourceMetadata returned
  \* ---- iperf3_benchmark.py ----
  nvms,             \* len(benchmark_spec.vms); the handles are 1..nvms
  run_external,     \* vm_util.ShouldRunOnExternalIpAddress()
  run_internal,     \* vm_util.ShouldRunOnInternalIpAddress(sender, receiver)
  thread_count,     \* FLAGS.iperf3_sending_thread_count
  true_division,    \* the interpreter divides two ints as Python 3 does
  prepare_result,   \* Prepare: "none", "running", "ok", "raised"
  run_result,       \* Run: "none", "running", "ok", "raised"
  cleanup_result,   \* Cleanup: "none", "running", "ok", "raised"
  prep_vm,          \* Prepare: the handle of the current loop iteration
  prep_step,        \* Prepare: the next statement of the loop body
  pid,              \* vm.iperf3_server_pid per handle; 0 = attribute not set
  run_idx,          \* Run: position in the enabled (direction, mode) list
  tries,            \* Retry: attempts of the current _RunIperf call so far
  results,          \* Run: the local list results
  run_return,       \* what the caller of Run received
  clean_vm,         \* Cleanup: the handle of the current loop iteration
  ip_err,           \* the error the last phase surfaced
  vm_log,           \* what was issued on the handles, in order
  \* ---- the stdout parsing of _RunIperf on its own ----
  ex_stdout,        \* the lines of stdout handed to the parsing
  ex_threads,       \* thread_count of that call
  ex_truediv,       \* the interpreter divides two ints as Python 3 does
  ex_result         \* what the parsing produced: an error or the samples

dbvars == <<use_managed_db, spec_in, spec, db_state, is_managed_db, has_endpoint,
            endpoint_, has_port, port_, provisioned, boot_state, boot_pc,
            server_log, db_last>>

ipvars == <<nvms, run_external, run_internal, thread_count, true_division,
            prepare_result, run_result, cleanup_result, prep_vm, prep_step, pid,
            run_idx, tries, results, run_return, clean_vm, ip_err, vm_log>>

dbcalls == <<failover_requests, failover_calls, status_log, use_localhost_arg>>

metavars == <<vm_spec, mysql_flags, metadata>>

exvars == <<ex_stdout, ex_threads, ex_truediv, ex_result>>

vars == <<dbvars, dbcalls, metavars, ipvars, exvars>>

-----------------------------------------------------------------------------
(* Inputs of the database part. *)

RequestedUsers == {"pkb-db-user", "root"}
RequestedPasswords == {"s3cret", "perfkitbenchmarker"}
EngineVersions == {"5.6", "5.7.21", "8.0"}
ProviderEndpoint == "10.0.0.5"
ProviderPort == 3306
ClientIp == "10.0.0.9"
ScratchDir == "/scratch"

SpecInputs ==
  [high_availability : BOOLEAN,
   database_username : RequestedUsers,
   database_password : RequestedPasswords,
   engine_version    : EngineVersions]

NoError == "none"

StartsWith(s, p) == Len(s) >= Len(p) /\ SubSeq(s, 1, Len(p)) = p

-----------------------------------------------------------------------------
(* BaseRelationalDb.__init__ *)

\* __init__ without the forcing of the credentials.
BaseRelationalDb_init_KeepCredentials ==
  /\ db_state = "new"
  /\ IF ~use_managed_db
       THEN IF spec.high_availability
              THEN /\ db_state' = "init_raised"
                   /\ db_last' = [op |-> "__init__", err |-> "UnsupportedError", val |-> ""]
                   /\ UNCHANGED <<spec, is_managed_db, has_endpoint, endpoint_>>
              ELSE /\ db_state' = "constructed"
                   /\ has_endpoint' = TRUE
                   /\ endpoint_' = ""
                   /\ is_managed_db' = FALSE
                   /\ db_last' = [op |-> "__init__", err |-> NoError, val |-> ""]
                   /\ UNCHANGED spec
       ELSE /\ db_state' = "constructed"
            /\ is_managed_db' = TRUE
            /\ db_last' = [op |-> "__init__", err |-> NoError, val |-> ""]
            /\ UNCHANGED <<spec, has_endpoint, endpoint_>>
  /\ UNCHANGED <<ipvars, exvars>>
  /\ UNCHANGED <<dbcalls, metavars>>
  /\ UNCHANGED <<use_managed_db, spec_in, has_port, port_, provisioned,
                 boot_state, boot_pc, server_log>>

\* __init__ accepting high availability on an unmanaged database.
BaseRelationalDb_init_AllowHA ==
  /\ db_state = "new"
  /\ IF ~use_managed_db
       THEN /\ db_state' = "constructed"
            /\ has_endpoint' = TRUE
            /\ endpoint_' = ""
            /\ spec' = [spec EXCEPT !.database_username = "root",
                                    !.database_password = "perfkitbenchmarker"]
            /\ is_managed_db' = FALSE
            /\ db_last' = [op |-> "__init__", err |-> NoError, val |-> ""]
       ELSE /\ db_state' = "constructed"
            /\ is_managed_db' = TRUE
            /\ db_last' = [op |-> "__init__", err |-> NoError, val |-> ""]
            /\ UNCHANGED <<spec, has_endpoint, endpoint_>>
  /\ UNCHANGED <<ipvars, exvars>>
  /\ UNCHANGED <<dbcalls, metavars>>
  /\ UNCHANGED <<use_managed_db, spec_in, has_port, port_, provisioned,
                 boot_state, boot_pc, server_log>>

BaseRelationalDb_init ==
  /\ db_state = "new"
  /\ IF ~use_managed_db
       THEN IF spec.high_availability
              THEN /\ db_state' = "init_raised"
                   /\ db_last' = [op |-> "__init__", err |-> "UnsupportedError", val |-> ""]
                   /\ UNCHANGED <<spec, is_managed_db, has_endpoint, endpoint_>>
              ELSE /\ db_state' = "constructed"
                   /\ has_endpoint' = TRUE
                   /\ endpoint_' = ""
                   /\ spec' = [spec EXCEPT !.database_username = "root",
                                           !.database_password = "perfkitbenchmarker"]
                   /\ is_managed_db' = FALSE
                   /\ db_last' = [op |-> "__init__", err |-> NoError, val |-> ""]
       ELSE /\ db_state' = "constructed"
            /\ is_managed_db' = TRUE
            /\ db_last' = [op |-> "__init__", err |-> NoError, val |-> ""]
            /\ UNCHANGED <<spec, has_endpoint, endpoint_>>
  /\ UNCHANGED <<ipvars, exvars>>
  /\ UNCHANGED <<dbcalls, metavars>>
  /\ UNCHANGED <<use_managed_db, spec_in, has_port, port_, provisioned,
                 boot_state, boot_pc, server_log>>

-----------------------------------------------------------------------------
(* The endpoint and port properties. *)

\* The external provisioning collaborator (managed mode), or the concrete
\* backend once the bootstrap has completed (unmanaged mode), publishes the
\* endpoint and the port through the property setters.
ProviderAssign ==
  /\ db_state = "constructed"
  /\ ~provisioned
  /\ is_managed_db \/ boot_state = "done"
  /\ has_endpoint' = TRUE
  /\ endpoint_' = ProviderEndpoint
  /\ has_port' = TRUE
  /\ port_' = ProviderPort
  /\ provisioned' = TRUE
  /\ db_last' = [op |-> "assign", err |-> NoError, val |-> ""]
  /\ UNCHANGED <<ipvars, exvars>>
  /\ UNCHANGED <<dbcalls, metavars>>
  /\ UNCHANGED <<use_managed_db, spec_in, spec, db_state, is_managed_db,
                 boot_state, boot_pc, server_log>>

ReadEndpoint ==
  /\ db_state = "constructed"
  /\ db_last' = IF ~has_endpoint
                  THEN [op |-> "endpoint", err |-> "RelationalDbPropertyNotSet", val |-> ""]
                  ELSE [op |-> "endpoint", err |-> NoError, val |-> endpoint_]
  /\ UNCHANGED <<ipvars, exvars>>
  /\ UNCHANGED <<dbcalls, metavars>>
  /\ UNCHANGED <<use_managed_db, spec_in, spec, db_state, is_managed_db,
                 has_endpoint, endpoint_, has_port, port_, provisioned,
                 boot_state, boot_pc, server_log>>

ReadPort ==
  /\ db_state = "constructed"
  /\ db_last' = IF ~has_port
                  THEN [op |-> "port", err |-> "RelationalDbPropertyNotSet", val |-> ""]
                  ELSE [op |-> "port", err |-> NoError, val |-> ToString(port_)]
  /\ UNCHANGED <<ipvars, exvars>>
  /\ UNCHANGED <<dbcalls, metavars>>
  /\ UNCHANGED <<use_managed_db, spec_in, spec, db_state, is_managed_db,
                 has_endpoint, endpoint_, has_port, port_, provisioned,
                 boot_state, boot_pc, server_log>>

-----------------------------------------------------------------------------
(* Connection strings. *)

\* The mysql string with the port suffix in managed mode instead of
\* unmanaged mode.
MysqlConnectionString_PortWhenManaged(host, managed, user, password) ==
  "-h " \o host \o (IF managed THEN " -P 3306" ELSE "")
        \o " -u " \o user \o " -p" \o password

MysqlConnectionString(host, managed, user, password) ==
  "-h " \o host \o (IF ~managed THEN " -P 3306" ELSE "")
        \o " -u " \o user \o " -p" \o password

SysbenchConnectionString(host, managed, user, password) ==
  "--mysql-host=" \o host \o (IF ~managed THEN " --mysql-port=3306" ELSE "")
        \o " --mysql-user=" \o user \o " --mysql-password=\"" \o password \o "\" "

PsqlConnectionString(host, user, password, database_name) ==
  "'host=" \o host \o " user=" \o user \o " password=" \o password
        \o " dbname=" \o database_name \o "'"

\* The value of MakeMysqlConnectionString(use_localhost=True): the endpoint
\* property is not read on this path.
MysqlLocalhostString ==
  MysqlConnectionString("localhost", is_managed_db,
                        spec.database_username, spec.database_password)

MakeMysqlConnectionString ==
  /\ db_state = "constructed"
  /\ \E use_localhost \in BOOLEAN :
       /\ use_localhost_arg' = use_localhost
       /\ db_last' =
            IF ~use_localhost /\ ~has_endpoint
              THEN [op |-> "mysql", err |-> "RelationalDbPropertyNotSet", val |-> ""]
              ELSE [op |-> "mysql", err |-> NoError,
                    val |-> MysqlConnectionString(
                              IF use_localhost THEN "localhost" ELSE endpoint_,
                              is_managed_db,
                              spec.database_username, spec.database_password)]
  /\ UNCHANGED <<ipvars, exvars>>
  /\ UNCHANGED <<failover_requests, failover_calls, status_log, metavars>>
  /\ UNCHANGED <<use_managed_db, spec_in, spec, db_state, is_managed_db,
                 has_endpoint, endpoint_, has_port, port_, provisioned,
                 boot_state, boot_pc, server_log>>

MakeSysbenchConnectionString ==
  /\ db_state = "constructed"
  /\ db_last' =
       IF ~has_endpoint
         THEN [op |-> "sysbench", err |-> "RelationalDbPropertyNotSet", val |-> ""]
         ELSE [op |-> "sysbench", err |-> NoError,
               val |-> SysbenchConnectionString(endpoint_, is_managed_db,
                         spec.database_username, spec.database_password)]
  /\ UNCHANGED <<ipvars, exvars>>
  /\ UNCHANGED <<dbcalls, metavars>>
  /\ UNCHANGED <<use_managed_db, spec_in, spec, db_state, is_managed_db,
                 has_endpoint, endpoint_, has_port, port_, provisioned,
                 boot_state, boot_pc, server_log>>

MakePsqlConnectionString ==
  /\ db_state = "constructed"
  /\ db_last' =
       IF ~has_endpoint
         THEN [op |-> "psql", err |-> "RelationalDbPropertyNotSet", val |-> ""]
         ELSE [op |-> "psql", err |-> NoError,
               val |-> PsqlConnectionString(endpoint_, spec.database_username,
                         spec.database_password, "sbtest")]
  /\ UNCHANGED <<ipvars, exvars>>
  /\ UNCHANGED <<dbcalls, metavars>>
  /\ UNCHANGED <<use_managed_db, spec_in, spec, db_state, is_managed_db,
                 has_endpoint, endpoint_, has_port, port_, provisioned,
                 boot_state, boot_pc, server_log>>

-----------------------------------------------------------------------------
(* _InstallMySQLServer: the bootstrap of an unmanaged MySQL server. *)

IsVersion56(v) == v = "5.6" \/ StartsWith(v, "5.6.")
IsVersion57(v) == v = "5.7" \/ StartsWith(v, "5.7.")

MysqlName(v) == IF IsVersion56(v) THEN "mysql56" ELSE "mysql57"

\* The remote commands of _InstallMySQLServer after the package install, in
\* program order. user and password are the credentials the text carries.
BootCommands(mysql_name) ==
  << [step |-> "chmod", user |-> "", password |-> "",
      text |-> "chmod 777 " \o ScratchDir],
     [step |-> "stop", user |-> "", password |-> "",
      text |-> "sudo service " \o mysql_name \o " stop"],
     [step |-> "datadir", user |-> "", password |-> "",
      text |-> "sudo sed -i \"s/datadir=\\/var\\/lib\\/mysql/datadir=\\"
               \o ScratchDir \o "\\/mysql/\" /etc/" \o mysql_name \o ".cnf"],
     [step |-> "copy", user |-> "", password |-> "",
      text |-> "sudo cp -R -p /var/lib/mysql " \o ScratchDir \o "/"],
     [step |-> "bind", user |-> "", password |-> "",
      text |-> "sudo sed -i 's/bind-address/#bind-address/g' /etc/mysql/mysql.conf.d/mysqld.cnf"],
     [step |-> "restart", user |-> "", password |-> "",
      text |-> "sudo service " \o mysql_name \o " restart"],
     [step |-> "create_user",
      user |-> spec.database_username, password |-> spec.database_password,
      text |-> "mysql " \o MysqlLocalhostString \o " -e \"CREATE USER '"
               \o spec.database_username \o "'@'" \o ClientIp
               \o "' IDENTIFIED BY '" \o spec.database_password \o "';\""],
     [step |-> "grant",
      user |-> spec.database_username, password |-> spec.database_password,
      text |-> "mysql " \o MysqlLocalhostString \o " -e \"GRANT ALL PRIVILEGES ON *.* TO '"
               \o spec.database_username \o "'@'" \o ClientIp \o "';\""],
     [step |-> "flush",
      user |-> spec.database_username, password |-> spec.database_password,
      text |-> "mysql " \o MysqlLocalhostString \o " -e \"FLUSH PRIVILEGES;\""] >>

Issued(cmd, ok) ==
  [step |-> cmd.step, user |-> cmd.user, password |-> cmd.password,
   text |-> cmd.text, ok |-> ok]

\* Entry of _InstallMySQLServer: the mode check, the version check and the
\* package install.
InstallMySQLServer_Begin ==
  /\ db_state = "constructed"
  /\ boot_state = "idle"
  /\ IF is_managed_db
       THEN /\ boot_state' = "raised"
            /\ db_last' = [op |-> "_InstallMySQLServer", err |-> "Exception", val |-> "managed"]
            /\ UNCHANGED <<boot_pc, server_log>>
       ELSE IF ~IsVersion56(spec.engine_version) /\ ~IsVersion57(spec.engine_version)
         THEN /\ boot_state' = "raised"
              /\ db_last' = [op |-> "_InstallMySQLServer", err |-> "Exception", val |-> "version"]
              /\ UNCHANGED <<boot_pc, server_log>>
         ELSE \E ok \in BOOLEAN :
              /\ server_log' = Append(server_log,
                   Issued([step |-> "install", user |-> "", password |-> "",
                           text |-> MysqlName(spec.engine_version)], ok))
              /\ IF ok
                   THEN /\ boot_state' = "running"
                        /\ boot_pc' = 1
                        /\ db_last' = [op |-> "_InstallMySQLServer", err |-> NoError, val |-> "install"]
                   ELSE /\ boot_state' = "raised"
                        /\ db_last' = [op |-> "_InstallMySQLServer", err |-> "InstallError", val |-> "install"]
                        /\ UNCHANGED boot_pc
  /\ UNCHANGED <<ipvars, exvars>>
  /\ UNCHANGED <<dbcalls, metavars>>
  /\ UNCHANGED <<use_managed_db, spec_in, spec, db_state, is_managed_db,
                 has_endpoint, endpoint_, has_port, port_, provisioned>>

\* A bootstrap step that issues its command again after a failure, up to
\* five times.
InstallMySQLServer_Step_Retrying ==
  /\ boot_state = "running"
  /\ LET cmds == BootCommands(MysqlName(spec.engine_version))
         cmd  == cmds[boot_pc]
         tried == Cardinality({i \in 1..Len(server_log) : server_log[i].step = cmd.step})
     IN \E ok \in BOOLEAN :
          /\ server_log' = Append(server_log, Issued(cmd, ok))
          /\ IF ok
               THEN /\ db_last' = [op |-> "_InstallMySQLServer", err |-> NoError, val |-> cmd.step]
                    /\ IF boot_pc = Len(cmds)
                         THEN boot_state' = "done" /\ UNCHANGED boot_pc
                         ELSE boot_pc' = boot_pc + 1 /\ UNCHANGED boot_state
               ELSE IF tried + 1 < 5
                 THEN /\ db_last' = [op |-> "_InstallMySQLServer", err |-> NoError, val |-> cmd.step]
                      /\ UNCHANGED <<boot_state, boot_pc>>
                 ELSE /\ boot_state' = "raised"
                      /\ db_last' = [op |-> "_InstallMySQLServer", err |-> "RemoteCommandError", val |-> cmd.step]
                      /\ UNCHANGED boot_pc
  /\ UNCHANGED <<ipvars, exvars>>
  /\ UNCHANGED <<dbcalls, metavars>>
  /\ UNCHANGED <<use_managed_db, spec_in, spec, db_state, is_managed_db,
                 has_endpoint, endpoint_, has_port, port_, provisioned>>

\* A bootstrap that goes on with the next step after a failed command.
InstallMySQLServer_Step_IgnoreFailure ==
  /\ boot_state = "running"
  /\ LET cmds == BootCommands(MysqlName(spec.engine_version))
         cmd  == cmds[boot_pc]
     IN \E ok \in BOOLEAN :
          /\ server_log' = Append(server_log, Issued(cmd, ok))
          /\ db_last' = [op |-> "_InstallMySQLServer", err |-> NoError, val |-> cmd.step]
          /\ IF boot_pc = Len(cmds)
               THEN boot_state' = "done" /\ UNCHANGED boot_pc
               ELSE boot_pc' = boot_pc + 1 /\ UNCHANGED boot_state
  /\ UNCHANGED <<ipvars, exvars>>
  /\ UNCHANGED <<dbcalls, metavars>>
  /\ UNCHANGED <<use_managed_db, spec_in, spec, db_state, is_managed_db,
                 has_endpoint, endpoint_, has_port, port_, provisioned>>

\* One self.server_vm.RemoteCommand(...) of _InstallMySQLServer: it either
\* returns, and the method goes on to the next statement, or raises
\* RemoteCommandError, which leaves the method.
InstallMySQLServer_Step ==
  /\ boot_state = "running"
  /\ LET cmds == BootCommands(MysqlName(spec.engine_version))
         cmd  == cmds[boot_pc]
     IN \E ok \in BOOLEAN :
          /\ server_log' = Append(server_log, Issued(cmd, ok))
          /\ IF ok
               THEN /\ db_last' = [op |-> "_InstallMySQLServer", err |-> NoError, val |-> cmd.step]
                    /\ IF boot_pc = Len(cmds)
                         THEN boot_state' = "done" /\ UNCHANGED boot_pc
                         ELSE boot_pc' = boot_pc + 1 /\ UNCHANGED boot_state
               ELSE /\ boot_state' = "raised"
                    /\ db_last' = [op |-> "_InstallMySQLServer", err |-> "RemoteCommandError", val |-> cmd.step]
                    /\ UNCHANGED boot_pc
  /\ UNCHANGED <<ipvars, exvars>>
  /\ UNCHANGED <<dbcalls, metavars>>
  /\ UNCHANGED <<use_managed_db, spec_in, spec, db_state, is_managed_db,
                 has_endpoint, endpoint_, has_port, port_, provisioned>>

-----------------------------------------------------------------------------
(* iperf3_benchmark.py: constants and inputs. *)

IPERF_PORT == 20000

\* A retry budget one short of the configured one.
IPERF_RETRIES_OneShort == 5 - 1

\* A budget of one attempt more.
IPERF_RETRIES_OneMore == 5 + 1

IPERF_RETRIES == 5

MaxVms == 3
MaxThreads == 2

Vms == 1..nvms

-----------------------------------------------------------------------------
(* The output of the client command, as _RunIperf reads it.  A line is     *)
(* represented by what the code looks at: whether it contains 'iperf Done' *)
(* and the fields of line[6:].split().                                     *)

Num(w)      == [t |-> "num",   w |-> w,  a |-> 0, b |-> 0]
Word(w)     == [t |-> "word",  w |-> w,  a |-> 0, b |-> 0]
Ratio(l, n) == [t |-> "ratio", w |-> "", a |-> l, b |-> n]

Line(fields)  == [sentinel |-> FALSE, fields |-> fields]
SentinelLine  == [sentinel |-> TRUE,  fields |-> <<Word("Done.")>>]
BlankLine     == Line(<< >>)
SeparatorLine == Line(<<Word("-"), Word("-"), Word("-")>>)
HeaderLine    ==
  Line(<<Word("Interval"), Word("Transfer"), Word("Bandwidth"), Word("Jitter"),
         Word("Lost/Total"), Word("Datagrams")>>)
SentLine(n)   == Line(<<Word("Sent"), Num(n), Word("datagrams")>>)

Row(transfer, tunit, bandwidth, jitter, lost, total, pct) ==
  Line(<<Word("0.00-60.00"), Word("sec"), Num(transfer), Word(tunit),
         Num(bandwidth), Word("Mbits/sec"), Num(jitter), Word("ms"),
         Ratio(lost, total), Word(pct)>>)

\* The two examples in the comments of _RunIperf.
SingleFlowOutput ==
  << SeparatorLine, HeaderLine,
     Row("714", "MBytes", "99.8", "0.037", 57685, 91386, "(63%)"),
     SentLine("91386"), BlankLine, SentinelLine >>

MultiFlowOutput ==
  << SeparatorLine, HeaderLine,
     Row("714", "MBytes", "99.8", "0.039", 25457, 91328, "(28%)"),
     SentLine("91328"),
     Row("714", "MBytes", "99.8", "0.052", 41304, 91275, "(45%)"),
     SentLine("91275"),
     Row("1.39", "GBytes", "200", "0.045", 66761, 182603, "(37%)"),
     BlankLine, SentinelLine >>

\* What a client command that exited with status 0 may have printed.
Outputs(threads) ==
  { IF threads > 1 THEN MultiFlowOutput ELSE SingleFlowOutput, << >> }

\* Python's seq[i]: a negative index counts from the end.
PyInRange(seq, i) == -Len(seq) <= i /\ i < Len(seq)
PyIndex(seq, i) == seq[(IF i < 0 THEN Len(seq) + i ELSE i) + 1]

\* The scan stopping at the first line that contains the marker.
LastLineIndex_First(lines) ==
  LET hits == {i \in 0..(Len(lines) - 1) : lines[i + 1].sentinel}
  IN IF hits = {} THEN 0 ELSE CHOOSE i \in hits : \A j \in hits : i <= j

\* last_line_index after the scan of lines: the index of the last line that
\* contains the marker, 0 when no line does.
LastLineIndex(lines) ==
  LET hits == {i \in 0..(Len(lines) - 1) : lines[i + 1].sentinel}
  IN IF hits = {} THEN 0 ELSE CHOOSE i \in hits : \A j \in hits : j <= i

ResultLineIndex(lines, threads) ==
  IF threads > 1 THEN LastLineIndex(lines) - 2 ELSE LastLineIndex(lines) - 3

\* round(lost * 100 / total): with Python 3 the quotient is exact and round
\* goes to the nearest integer, ties to even; with Python 2 the quotient of
\* two ints is already floored.
DatagramsPrcnt(lost, total, truediv) ==
  LET n == lost * 100
      q == n \div total
      r == n % total
  IN IF ~truediv THEN q
     ELSE IF 2 * r < total THEN q
     ELSE IF 2 * r > total THEN q + 1
     ELSE IF q % 2 = 0 THEN q ELSE q + 1

Sample(name, value, unit, sender, receiver, ip_type, threads) ==
  [metric |-> name, value |-> value, unit |-> unit,
   sending_vm |-> sender, receiving_vm |-> receiver,
   ip_type |-> ip_type, sending_thread_count |-> threads]

\* The body of _RunIperf after the remote command returned: the error it
\* raises, or the six samples.
ParseOutput(lines, threads, truediv, sender, receiver, ip_type) ==
  LET idx == ResultLineIndex(lines, threads)
      Fail(kind) == [err |-> kind, samples |-> << >>]
  IN IF ~PyInRange(lines, idx) THEN Fail("IndexError")
     ELSE LET res == PyIndex(lines, idx).fields
          IN IF Len(res) < 9 THEN Fail("IndexError")
             ELSE IF res[9].t # "ratio" THEN Fail("IndexError")
             ELSE IF res[9].b = 0 THEN Fail("ZeroDivisionError")
             ELSE IF res[3].t # "num" \/ res[5].t # "num" \/ res[7].t # "num"
               THEN Fail("ValueError")
             ELSE
               [err |-> NoError,
                samples |->
                  << Sample("Transfer", res[3].w, res[4].w, sender, receiver, ip_type, threads),
                     Sample("Bandwidth", res[5].w, res[6].w, sender, receiver, ip_type, threads),
                     Sample("Jitter", res[7].w, res[8].w, sender, receiver, ip_type, threads),
                     Sample("Datagram Lost", ToString(res[9].a), "datagrams",
                            sender, receiver, ip_type, threads),
                     Sample("Datagram Total", ToString(res[9].b), "datagrams",
                            sender, receiver, ip_type, threads),
                     Sample("Datagram percentage",
                            ToString(DatagramsPrcnt(res[9].a, res[9].b, truediv)), "%",
                            sender, receiver, ip_type, threads) >>]

-----------------------------------------------------------------------------
(* Prepare *)

NoCause == [kind |-> NoError, attempt |-> 0, reason |-> ""]

Raised(phase, kind) == [phase |-> phase, kind |-> kind, cause |-> NoCause]

NoIpError == Raised("", NoError)

Entry(vm, op, cmd, ok) ==
  [vm |-> vm, op |-> op, cmd |-> cmd, peer |-> 0, ip_type |-> "", ok |-> ok]

ClientEntry(sender, receiver, ip_type, ok) ==
  [vm |-> sender, op |-> "RemoteCommand", cmd |-> "client", peer |-> receiver,
   ip_type |-> ip_type, ok |-> ok]

\* A length check that lets more than two machines through.
PrepareAccepts_AtLeastTwo(n) == n >= 2

\* if len(vms) != 2: raise ValueError
PrepareAccepts(n) == n = 2

Prepare_Begin ==
  /\ prepare_result = "none"
  /\ IF ~PrepareAccepts(nvms)
       THEN /\ prepare_result' = "raised"
            /\ ip_err' = Raised("Prepare", "ValueError")
            /\ UNCHANGED <<prep_vm, prep_step>>
       ELSE /\ prepare_result' = "running"
            /\ prep_vm' = 1
            /\ prep_step' = "install"
            /\ ip_err' = NoIpError
  /\ UNCHANGED <<nvms, run_external, run_internal, thread_count, true_division,
                 run_result, cleanup_result, pid, run_idx, tries, results,
                 run_return, clean_vm, vm_log>>
  /\ UNCHANGED <<dbvars, dbcalls, metavars, exvars>>

\* vm.Install('iperf3')
Prepare_Install ==
  /\ prepare_result = "running"
  /\ prep_step = "install"
  /\ \E ok \in BOOLEAN :
       /\ vm_log' = Append(vm_log, Entry(prep_vm, "Install", "iperf3", ok))
       /\ IF ok
            THEN /\ prep_step' = IF run_external THEN "allow" ELSE "server"
                 /\ UNCHANGED <<prepare_result, ip_err>>
            ELSE /\ prepare_result' = "raised"
                 /\ ip_err' = Raised("Prepare", "InstallError")
                 /\ UNCHANGED prep_step
  /\ UNCHANGED <<nvms, run_external, run_internal, thread_count, true_division,
                 run_result, cleanup_result, prep_vm, pid, run_idx, tries,
                 results, run_return, clean_vm>>
  /\ UNCHANGED <<dbvars, dbcalls, metavars, exvars>>

\* if vm_util.ShouldRunOnExternalIpAddress(): vm.AllowPort(IPERF_PORT)
Prepare_AllowPort ==
  /\ prepare_result = "running"
  /\ prep_step = "allow"
  /\ \E ok \in BOOLEAN :
       /\ vm_log' = Append(vm_log, Entry(prep_vm, "AllowPort", ToString(IPERF_PORT), ok))
       /\ IF ok
            THEN /\ prep_step' = "server"
                 /\ UNCHANGED <<prepare_result, ip_err>>
            ELSE /\ prepare_result' = "raised"
                 /\ ip_err' = Raised("Prepare", "AllowPortError")
                 /\ UNCHANGED prep_step
  /\ UNCHANGED <<nvms, run_external, run_internal, thread_count, true_division,
                 run_result, cleanup_result, prep_vm, pid, run_idx, tries,
                 results, run_return, clean_vm>>
  /\ UNCHANGED <<dbvars, dbcalls, metavars, exvars>>

\* The server started without vm.iperf3_server_pid being assigned.
Prepare_StartServer_NoPid ==
  /\ prepare_result = "running"
  /\ prep_step = "server"
  /\ \E ok \in BOOLEAN :
       /\ vm_log' = Append(vm_log, Entry(prep_vm, "RemoteCommand", "server", ok))
       /\ IF ok
            THEN /\ prep_step' = "sysctl"
                 /\ UNCHANGED <<prepare_result, ip_err>>
            ELSE /\ prepare_result' = "raised"
                 /\ ip_err' = Raised("Prepare", "RemoteCommandError")
                 /\ UNCHANGED prep_step
  /\ UNCHANGED <<nvms, run_external, run_internal, thread_count, true_division,
                 run_result, cleanup_result, prep_vm, pid, run_idx, tries, results,
                 run_return, clean_vm>>
  /\ UNCHANGED <<dbvars, dbcalls, metavars, exvars>>

\* stdout, _ = vm.RemoteCommand('nohup iperf3 --server ... & echo $!')
\* vm.iperf3_server_pid = stdout.strip()
Prepare_StartServer ==
  /\ prepare_result = "running"
  /\ prep_step = "server"
  /\ \E ok \in BOOLEAN :
       /\ vm_log' = Append(vm_log, Entry(prep_vm, "RemoteCommand", "server", ok))
       /\ IF ok
            THEN /\ pid' = [pid EXCEPT ![prep_vm] = 1000 + prep_vm]
                 /\ prep_step' = "sysctl"
                 /\ UNCHANGED <<prepare_result, ip_err>>
            ELSE /\ prepare_result' = "raised"
                 /\ ip_err' = Raised("Prepare", "RemoteCommandError")
                 /\ UNCHANGED <<pid, prep_step>>
  /\ UNCHANGED <<nvms, run_external, run_internal, thread_count, true_division,
                 run_result, cleanup_result, prep_vm, run_idx, tries, results,
                 run_return, clean_vm>>
  /\ UNCHANGED <<dbvars, dbcalls, metavars, exvars>>

\* stdout, _ = vm.RemoteCommand('sysctl -a'), the last statement of the loop
\* body.
Prepare_Sysctl ==
  /\ prepare_result = "running"
  /\ prep_step = "sysctl"
  /\ \E ok \in BOOLEAN :
       /\ vm_log' = Append(vm_log, Entry(prep_vm, "RemoteCommand", "sysctl", ok))
       /\ IF ~ok
            THEN /\ prepare_result' = "raised"
                 /\ ip_err' = Raised("Prepare", "RemoteCommandError")
                 /\ UNCHANGED <<prep_vm, prep_step>>
            ELSE IF prep_vm = nvms
              THEN /\ prepare_result' = "ok"
                   /\ UNCHANGED <<prep_vm, prep_step, ip_err>>
              ELSE /\ prep_vm' = prep_vm + 1
                   /\ prep_step' = "install"
                   /\ UNCHANGED <<prepare_result, ip_err>>
  /\ UNCHANGED <<nvms, run_external, run_internal, thread_count, true_division,
                 run_result, cleanup_result, pid, run_idx, tries, results,
                 run_return, clean_vm>>
  /\ UNCHANGED <<dbvars, dbcalls, metavars, exvars>>

-----------------------------------------------------------------------------
(* vm_util.Retry(max_retries=IPERF_RETRIES) around _RunIperf *)

\* After the attempt numbered `attempt` raised RemoteCommandError: is the
\* operation issued again?
RetryAgain(attempt) == attempt < IPERF_RETRIES

\* What is surfaced once the budget is used up.
RetryExhausted(phase, last) ==
  [phase |-> phase, kind |-> "RetryExhaustedError", cause |-> last]

-----------------------------------------------------------------------------
(* Run *)

VmSeq == [i \in 1..nvms |-> i]

Reversed(s) == [i \in 1..Len(s) |-> s[Len(s) + 1 - i]]

Combo(pair, ip_type) ==
  [sender |-> pair[1], receiver |-> pair[2], ip_type |-> ip_type]

\* Run's loops with the pair not reversed in the second iteration.
Combos_NotReversed ==
  << Combo(VmSeq, "external"), Combo(VmSeq, "internal"),
     Combo(VmSeq, "external"), Combo(VmSeq, "internal") >>

\* for sending_vm, receiving_vm in vms, reversed(vms): external, then internal.
Combos ==
  << Combo(VmSeq, "external"), Combo(VmSeq, "internal"),
     Combo(Reversed(VmSeq), "external"), Combo(Reversed(VmSeq), "internal") >>

ComboEnabled(c) ==
  IF c.ip_type = "external" THEN run_external
                            ELSE run_internal[<<c.sender, c.receiver>>]

EnabledCombos == SelectSeq(Combos, ComboEnabled)

\* A Run that catches the error and hands back what it has.
RunReturnOnError_Partial(acc) == [returned |-> TRUE, samples |-> acc]

\* An exception leaves Run: the return statement is not reached.
RunReturnOnError(acc) == [returned |-> FALSE, samples |-> << >>]

NothingReturned == [returned |-> FALSE, samples |-> << >>]

Run_Begin ==
  /\ prepare_result = "ok"
  /\ run_result = "none"
  /\ cleanup_result = "none"
  /\ results' = << >>
  /\ run_idx' = 1
  /\ tries' = 0
  /\ ip_err' = NoIpError
  /\ IF Len(EnabledCombos) = 0
       THEN /\ run_result' = "ok"
            /\ run_return' = [returned |-> TRUE, samples |-> << >>]
       ELSE /\ run_result' = "running"
            /\ UNCHANGED run_return
  /\ UNCHANGED <<nvms, run_external, run_internal, thread_count, true_division,
                 prepare_result, cleanup_result, prep_vm, prep_step, pid,
                 clean_vm, vm_log>>
  /\ UNCHANGED <<dbvars, dbcalls, metavars, exvars>>

\* One attempt of _RunIperf for the current (direction, mode): the client
\* command and, when it returns, the parsing of its output; then Retry's
\* decision, and Run's next statement.
RunIperf_Attempt ==
  /\ run_result = "running"
  /\ LET c == EnabledCombos[run_idx]
     IN \E outcome \in {"ok", "exit", "timeout"} :
          /\ vm_log' = Append(vm_log,
               ClientEntry(c.sender, c.receiver, c.ip_type, outcome = "ok"))
          /\ IF outcome # "ok"
               THEN LET e == [kind |-> "RemoteCommandError",
                              attempt |-> tries + 1, reason |-> outcome]
                    IN IF RetryAgain(tries + 1)
                         THEN /\ tries' = tries + 1
                              /\ UNCHANGED <<run_result, run_idx, results,
                                             run_return, ip_err>>
                         ELSE /\ run_result' = "raised"
                              /\ ip_err' = RetryExhausted("Run", e)
                              /\ run_return' = RunReturnOnError(results)
                              /\ results' = << >>
                              /\ tries' = tries + 1
                              /\ UNCHANGED run_idx
               ELSE \E out \in Outputs(thread_count) :
                    LET p == ParseOutput(out, thread_count, true_division,
                                         c.sender, c.receiver, c.ip_type)
                    IN IF p.err # NoError
                         THEN /\ run_result' = "raised"
                              /\ ip_err' = Raised("Run", p.err)
                              /\ run_return' = RunReturnOnError(results)
                              /\ results' = << >>
                              /\ tries' = tries + 1
                              /\ UNCHANGED run_idx
                         ELSE /\ results' = results \o p.samples
                              /\ tries' = 0
                              /\ UNCHANGED ip_err
                              /\ IF run_idx = Len(EnabledCombos)
                                   THEN /\ run_result' = "ok"
                                        /\ run_return' =
                                             [returned |-> TRUE,
                                              samples |-> results \o p.samples]
                                        /\ UNCHANGED run_idx
                                   ELSE /\ run_idx' = run_idx + 1
                                        /\ UNCHANGED <<run_result, run_return>>
  /\ UNCHANGED <<nvms, run_external, run_internal, thread_count, true_division,
                 prepare_result, cleanup_result, prep_vm, prep_step, pid,
                 clean_vm>>
  /\ UNCHANGED <<dbvars, dbcalls, metavars, exvars>>

-----------------------------------------------------------------------------
(* Cleanup *)

Cleanup_Begin ==
  /\ cleanup_result = "none"
  /\ prepare_result \in {"ok", "raised"}
  /\ run_result # "running"
  /\ clean_vm' = 1
  /\ cleanup_result' = IF nvms = 0 THEN "ok" ELSE "running"
  /\ UNCHANGED <<nvms, run_external, run_internal, thread_count, true_division,
                 prepare_result, run_result, prep_vm, prep_step, pid, run_idx,
                 tries, results, run_return, ip_err, vm_log>>
  /\ UNCHANGED <<dbvars, dbcalls, metavars, exvars>>

\* vm.RemoteCommand('kill -9 ' + vm.iperf3_server_pid, ignore_failure=True)
Cleanup_Kill ==
  /\ cleanup_result = "running"
  /\ IF pid[clean_vm] = 0
       THEN /\ cleanup_result' = "raised"
            /\ ip_err' = Raised("Cleanup", "AttributeError")
            /\ UNCHANGED <<clean_vm, vm_log>>
       ELSE \E ok \in BOOLEAN :
            /\ vm_log' = Append(vm_log, Entry(clean_vm, "RemoteCommand", "kill", ok))
            /\ UNCHANGED ip_err
            /\ IF clean_vm = nvms
                 THEN cleanup_result' = "ok" /\ UNCHANGED clean_vm
                 ELSE clean_vm' = clean_vm + 1 /\ UNCHANGED cleanup_result
  /\ UNCHANGED <<nvms, run_external, run_internal, thread_count, true_division,
                 prepare_result, run_result, prep_vm, prep_step, pid, run_idx,
                 tries, results, run_return>>
  /\ UNCHANGED <<dbvars, dbcalls, metavars, exvars>>

-----------------------------------------------------------------------------
(* BaseRelationalDb._IsReadyUnmanaged *)

MaxStatusQueries == 2

\* What 'sudo service <name> status' gives back: the command exits non-zero
\* (RemoteCommand raises), or it returns stdout and stderr, each empty or not.
StatusOutcomes ==
  {[raised |-> TRUE, stdout |-> "", stderr |-> ""]} \cup
  [raised : {FALSE}, stdout : {"", "active (running)"}, stderr : {"", "warning"}]

\* The value of the expression 'stdout and not stderr'.
StdoutAndNotStderr(stdout, stderr) ==
  IF stdout = "" THEN "''" ELSE IF stderr = "" THEN "True" ELSE "False"

StatusCommand(mysql_name) == "sudo service " \o mysql_name \o " status"

\* The status query on self.server_vm.
IsReadyUnmanaged_Query ==
  \E o \in StatusOutcomes :
    /\ status_log' = Append(status_log,
         [text |-> StatusCommand(MysqlName(spec.engine_version)), ok |-> ~o.raised])
    /\ db_last' =
         IF o.raised
           THEN [op |-> "_IsReadyUnmanaged", err |-> "RemoteCommandError", val |-> ""]
           ELSE [op |-> "_IsReadyUnmanaged", err |-> NoError,
                 val |-> StdoutAndNotStderr(o.stdout, o.stderr)]

\* _IsReadyUnmanaged without the check of is_managed_db.
IsReadyUnmanaged_NoModeCheck ==
  /\ db_state = "constructed"
  /\ boot_state # "running"
  /\ Len(status_log) < MaxStatusQueries
  /\ IF ~IsVersion56(spec.engine_version) /\ ~IsVersion57(spec.engine_version)
       THEN /\ db_last' = [op |-> "_IsReadyUnmanaged", err |-> "Exception", val |-> "version"]
            /\ UNCHANGED status_log
       ELSE IsReadyUnmanaged_Query
  /\ UNCHANGED <<ipvars, exvars>>
  /\ UNCHANGED <<failover_requests, failover_calls, use_localhost_arg, metavars>>
  /\ UNCHANGED <<use_managed_db, spec_in, spec, db_state, is_managed_db,
                 has_endpoint, endpoint_, has_port, port_, provisioned,
                 boot_state, boot_pc, server_log>>

\* _IsReadyUnmanaged: the mode check, the version check, then the status
\* query. It is a call of its own: it does not run inside _InstallMySQLServer.
IsReadyUnmanaged ==
  /\ db_state = "constructed"
  /\ boot_state # "running"
  /\ Len(status_log) < MaxStatusQueries
  /\ IF is_managed_db
       THEN /\ db_last' = [op |-> "_IsReadyUnmanaged", err |-> "Exception", val |-> "managed"]
            /\ UNCHANGED status_log
       ELSE IF ~IsVersion56(spec.engine_version) /\ ~IsVersion57(spec.engine_version)
         THEN /\ db_last' = [op |-> "_IsReadyUnmanaged", err |-> "Exception", val |-> "version"]
              /\ UNCHANGED status_log
         ELSE IsReadyUnmanaged_Query
  /\ UNCHANGED <<ipvars, exvars>>
  /\ UNCHANGED <<failover_requests, failover_calls, use_localhost_arg, metavars>>
  /\ UNCHANGED <<use_managed_db, spec_in, spec, db_state, is_managed_db,
                 has_endpoint, endpoint_, has_port, port_, provisioned,
                 boot_state, boot_pc, server_log>>

-----------------------------------------------------------------------------
(* BaseRelationalDb.Failover *)

MaxFailovers == 2

\* Failover() calling self._FailoverHA() whatever high_availability says.
Failover_Unconditional ==
  /\ db_state = "constructed"
  /\ boot_state # "running"
  /\ failover_requests < MaxFailovers
  /\ failover_requests' = failover_requests + 1
  /\ failover_calls' = failover_calls + 1
  /\ db_last' = [op |-> "Failover", err |-> NoError, val |-> ""]
  /\ UNCHANGED <<ipvars, exvars>>
  /\ UNCHANGED <<status_log, use_localhost_arg, metavars>>
  /\ UNCHANGED <<use_managed_db, spec_in, spec, db_state, is_managed_db,
                 has_endpoint, endpoint_, has_port, port_, provisioned,
                 boot_state, boot_pc, server_log>>

\* Failover(): raises Exception unless the spec asks for high availability,
\* else calls the provider's _FailoverHA(). It is a call of its own: it does
\* not run inside _InstallMySQLServer.
Failover ==
  /\ db_state = "constructed"
  /\ boot_state # "running"
  /\ failover_requests < MaxFailovers
  /\ failover_requests' = failover_requests + 1
  /\ IF ~spec.high_availability
       THEN /\ db_last' = [op |-> "Failover", err |-> "Exception", val |-> ""]
            /\ UNCHANGED failover_calls
       ELSE /\ failover_calls' = failover_calls + 1
            /\ db_last' = [op |-> "Failover", err |-> NoError, val |-> ""]
  /\ UNCHANGED <<ipvars, exvars>>
  /\ UNCHANGED <<status_log, use_localhost_arg, metavars>>
  /\ UNCHANGED <<use_managed_db, spec_in, spec, db_state, is_managed_db,
                 has_endpoint, endpoint_, has_port, port_, provisioned,
                 boot_state, boot_pc, server_log>>

-----------------------------------------------------------------------------
(* BaseRelationalDb.GetResourceMetadata *)

\* An attribute of vm_spec is missing, is None, or carries a value.
AttrAbsent == "<absent>"
AttrNone == "None"

MachineTypeVmSpec ==
  [machine_type |-> "db-n1-standard-1", cpus |-> AttrAbsent, memory |-> AttrAbsent,
   tier |-> AttrAbsent, compute_units |-> AttrAbsent]

\* The vm_spec objects: each sizing attribute missing, None or set.
VmSpecs ==
  [machine_type  : {AttrAbsent, AttrNone, "db-n1-standard-1"},
   cpus          : {AttrAbsent, AttrNone, "4"},
   memory        : {AttrAbsent, AttrNone, "7680MiB"},
   tier          : {AttrAbsent, AttrNone, "Standard"},
   compute_units : {AttrAbsent, AttrNone, "50"}]

MysqlFlagsValues == {"", "max_connections=200"}

hasattr(obj, name) == obj[name] # AttrAbsent

\* Truth value of an attribute that is present.
Truthy(value) == value # AttrNone

PyBool(b) == IF b THEN "True" ELSE "False"

\* The dict literal GetResourceMetadata starts from. The spec fields the
\* model does not vary are fixed values.
BaseMetadata ==
  { <<"zone", "us-central1-a">>,
    <<"disk_type", "pd-ssd">>,
    <<"disk_size", "50">>,
    <<"engine", "mysql">>,
    <<"high_availability", PyBool(spec.high_availability)>>,
    <<"backup_enabled", "True">>,
    <<"backup_start_time", "07:00">>,
    <<"engine_version", spec.engine_version>> }

\* The chain taking every branch whose test holds (if ... if ... if).
SizingMetadata_EveryBranch(vs) ==
  LET mt == IF hasattr(vs, "machine_type") /\ Truthy(vs.machine_type)
              THEN {<<"machine_type", vs.machine_type>>} ELSE {}
      cm == IF hasattr(vs, "cpus") /\ hasattr(vs, "memory")
              THEN {<<"cpus", vs.cpus>>, <<"memory", vs.memory>>} ELSE {}
      tc == IF hasattr(vs, "tier") /\ hasattr(vs, "compute_units")
              THEN {<<"tier", vs.tier>>, <<"compute_units", vs.compute_units>>} ELSE {}
  IN [raised |-> (mt \cup cm \cup tc) = {}, fields |-> mt \cup cm \cup tc]

\* The chain reading the branches from the last to the first.
SizingMetadata_LastFirst(vs) ==
  IF hasattr(vs, "tier") /\ hasattr(vs, "compute_units")
    THEN [raised |-> FALSE,
          fields |-> {<<"tier", vs.tier>>, <<"compute_units", vs.compute_units>>}]
  ELSE IF hasattr(vs, "cpus") /\ hasattr(vs, "memory")
    THEN [raised |-> FALSE,
          fields |-> {<<"cpus", vs.cpus>>, <<"memory", vs.memory>>}]
  ELSE IF hasattr(vs, "machine_type") /\ Truthy(vs.machine_type)
    THEN [raised |-> FALSE, fields |-> {<<"machine_type", vs.machine_type>>}]
  ELSE [raised |-> TRUE, fields |-> {}]

\* The if / elif / elif / else chain over the sizing attributes of vm_spec.
SizingMetadata(vs) ==
  IF hasattr(vs, "machine_type") /\ Truthy(vs.machine_type)
    THEN [raised |-> FALSE, fields |-> {<<"machine_type", vs.machine_type>>}]
  ELSE IF hasattr(vs, "cpus") /\ hasattr(vs, "memory")
    THEN [raised |-> FALSE,
          fields |-> {<<"cpus", vs.cpus>>, <<"memory", vs.memory>>}]
  ELSE IF hasattr(vs, "tier") /\ hasattr(vs, "compute_units")
    THEN [raised |-> FALSE,
          fields |-> {<<"tier", vs.tier>>, <<"compute_units", vs.compute_units>>}]
  ELSE [raised |-> TRUE, fields |-> {}]

MysqlFlagsMetadata ==
  IF mysql_flags # "" THEN {<<"mysql_flags", mysql_flags>>} ELSE {}

\* A call of its own, like Failover: it does not run inside
\* _InstallMySQLServer.
GetResourceMetadata ==
  /\ db_state = "constructed"
  /\ boot_state # "running"
  /\ LET sizing == SizingMetadata(vm_spec)
     IN IF sizing.raised
          THEN /\ db_last' = [op |-> "GetResourceMetadata",
                              err |-> "RelationalDbPropertyNotSet", val |-> ""]
               /\ metadata' = {}
          ELSE /\ db_last' = [op |-> "GetResourceMetadata", err |-> NoError, val |-> ""]
               /\ metadata' = BaseMetadata \cup sizing.fields \cup MysqlFlagsMetadata
  /\ UNCHANGED <<ipvars, exvars>>
  /\ UNCHANGED <<dbcalls, vm_spec, mysql_flags>>
  /\ UNCHANGED <<use_managed_db, spec_in, spec, db_state, is_managed_db,
                 has_endpoint, endpoint_, has_port, port_, provisioned,
                 boot_state, boot_pc, server_log>>

-----------------------------------------------------------------------------
(* The stdout parsing of _RunIperf, applied to one stdout. *)

NotParsed == [done |-> FALSE, err |-> NoError, samples |-> << >>]

MaxTotal == 8

\* The lost/total pairs a result row may carry.
Ratios == {r \in (0..MaxTotal) \X (0..MaxTotal) : r[1] <= r[2]}

\* Result rows printed for one flow and for the sum of the flows.
FlowRow(jitter, lost, total) ==
  Row("714", "MBytes", "99.8", jitter, lost, total, "(pct)")
SumRow(lost, total) ==
  Row("1.39", "GBytes", "200", "0.045", lost, total, "(pct)")

\* A row cut short, and a row whose transfer column is not a number.
ShortRow ==
  Line(<<Word("0.00-60.00"), Word("sec"), Num("714"), Word("MBytes")>>)
GarbledRow ==
  Line(<<Word("0.00-60.00"), Word("sec"), Word("n/a"), Word("MBytes"),
         Num("99.8"), Word("Mbits/sec"), Num("0.037"), Word("ms"),
         Ratio(1, 2), Word("(pct)")>>)

\* The two shapes of the examples in the comments of _RunIperf.
SingleFlow(row) ==
  << SeparatorLine, HeaderLine, row, SentLine("91386"), BlankLine, SentinelLine >>
MultiFlow(sum) ==
  << SeparatorLine, HeaderLine,
     FlowRow("0.039", 1, 3), SentLine("91328"),
     FlowRow("0.052", 2, 5), SentLine("91275"),
     sum, BlankLine, SentinelLine >>

Truncated(lines, n) == SubSeq(lines, 1, Len(lines) - n)

\* The stdouts handed to the parsing: well-formed ones of both shapes, the
\* marker printed twice, the marker missing or near the top, damaged rows.
ExtractInputs ==
  {SingleFlow(FlowRow("0.037", r[1], r[2])) : r \in Ratios} \cup
  {MultiFlow(SumRow(r[1], r[2])) : r \in Ratios} \cup
  { SingleFlowOutput, MultiFlowOutput,
    SingleFlow(FlowRow("0.037", 1, 4)) \o SingleFlow(FlowRow("0.011", 3, 4)),
    MultiFlow(SumRow(1, 4)) \o MultiFlow(SumRow(3, 4)),
    SingleFlow(FlowRow("0.037", 1, 4)) \o <<BlankLine>>,
    Truncated(SingleFlow(FlowRow("0.037", 1, 4)), 1),
    Truncated(SingleFlow(FlowRow("0.037", 1, 4)), 3),
    Truncated(MultiFlow(SumRow(1, 4)), 1),
    Truncated(MultiFlow(SumRow(1, 4)), 2),
    << >>,
    << SentinelLine >>,
    << BlankLine, SentinelLine >>,
    << FlowRow("0.037", 1, 4), SentinelLine >>,
    << FlowRow("0.037", 1, 4), BlankLine, SentinelLine >>,
    << SentinelLine, FlowRow("0.037", 1, 4), BlankLine, BlankLine >>,
    SingleFlow(ShortRow), SingleFlow(GarbledRow), SingleFlow(BlankLine),
    MultiFlow(ShortRow), MultiFlow(GarbledRow) }

\* The parsing applied to ex_stdout.
Extract ==
  /\ ~ex_result.done
  /\ LET r == ParseOutput(ex_stdout, ex_threads, ex_truediv, 1, 2, "external")
     IN ex_result' = [done |-> TRUE, err |-> r.err, samples |-> r.samples]
  /\ UNCHANGED <<ex_stdout, ex_threads, ex_truediv>>
  /\ UNCHANGED <<dbvars, dbcalls, metavars, ipvars>>

-----------------------------------------------------------------------------
(* The benchmark part as a state machine. *)

Directions == {<<1, 2>>, <<2, 1>>}

InitIperf ==
  /\ nvms \in 0..MaxVms
  /\ run_external \in BOOLEAN
  /\ run_internal \in [Directions -> BOOLEAN]
  /\ thread_count \in 1..MaxThreads
  /\ true_division \in BOOLEAN
  /\ prepare_result = "none"
  /\ run_result = "none"
  /\ cleanup_result = "none"
  /\ prep_vm = 0
  /\ prep_step = ""
  /\ pid = [v \in 1..MaxVms |-> 0]
  /\ run_idx = 0
  /\ tries = 0
  /\ results = << >>
  /\ run_return = NothingReturned
  /\ clean_vm = 0
  /\ ip_err = NoIpError
  /\ vm_log = << >>
  \* the database part is at rest
  /\ use_managed_db = TRUE
  /\ spec_in = [high_availability |-> FALSE, database_username |-> "root",
                database_password |-> "perfkitbenchmarker", engine_version |-> "5.7"]
  /\ spec = spec_in
  /\ db_state = "new"
  /\ is_managed_db = FALSE
  /\ has_endpoint = FALSE
  /\ endpoint_ = ""
  /\ has_port = FALSE
  /\ port_ = 0
  /\ provisioned = FALSE
  /\ boot_state = "idle"
  /\ boot_pc = 0
  /\ server_log = << >>
  /\ db_last = [op |-> "none", err |-> NoError, val |-> ""]
  /\ failover_requests = 0
  /\ failover_calls = 0
  /\ status_log = << >>
  /\ use_localhost_arg = FALSE
  /\ vm_spec = MachineTypeVmSpec
  /\ mysql_flags = ""
  /\ metadata = {}
  \* the parsing on its own is at rest
  /\ ex_stdout = << >>
  /\ ex_threads = 1
  /\ ex_truediv = TRUE
  /\ ex_result = NotParsed

NextIperf ==
  \/ Prepare_Begin
  \/ Prepare_Install
  \/ Prepare_AllowPort
  \/ Prepare_StartServer
  \/ Prepare_Sysctl
  \/ Run_Begin
  \/ RunIperf_Attempt
  \/ Cleanup_Begin
  \/ Cleanup_Kill

-----------------------------------------------------------------------------
(* The database part as a state machine. *)

InitDb ==
  /\ use_managed_db \in BOOLEAN
  /\ spec_in \in SpecInputs
  /\ spec = spec_in
  /\ db_state = "new"
  /\ is_managed_db = FALSE
  /\ has_endpoint = FALSE
  /\ endpoint_ = ""
  /\ has_port = FALSE
  /\ port_ = 0
  /\ provisioned = FALSE
  /\ boot_state = "idle"
  /\ boot_pc = 0
  /\ server_log = << >>
  /\ db_last = [op |-> "none", err |-> NoError, val |-> ""]
  /\ failover_requests = 0
  /\ failover_calls = 0
  /\ status_log = << >>
  /\ use_localhost_arg = FALSE
  /\ vm_spec = MachineTypeVmSpec
  /\ mysql_flags = ""
  /\ metadata = {}
  \* the benchmark part is at rest
  /\ nvms = 0
  /\ run_external = FALSE
  /\ run_internal = [d \in Directions |-> FALSE]
  /\ thread_count = 1
  /\ true_division = TRUE
  /\ prepare_result = "none"
  /\ run_result = "none"
  /\ cleanup_result = "none"
  /\ prep_vm = 0
  /\ prep_step = ""
  /\ pid = [v \in 1..MaxVms |-> 0]
  /\ run_idx = 0
  /\ tries = 0
  /\ results = << >>
  /\ run_return = NothingReturned
  /\ clean_vm = 0
  /\ ip_err = NoIpError
  /\ vm_log = << >>
  /\ ex_stdout = << >>
  /\ ex_threads = 1
  /\ ex_truediv = TRUE
  /\ ex_result = NotParsed

NextDb ==
  \/ BaseRelationalDb_init
  \/ ProviderAssign
  \/ ReadEndpoint
  \/ ReadPort
  \/ MakeMysqlConnectionString
  \/ MakeSysbenchConnectionString
  \/ MakePsqlConnectionString
  \/ InstallMySQLServer_Begin
  \/ InstallMySQLServer_Step
  \/ Failover
  \/ IsReadyUnmanaged
  \/ GetResourceMetadata

SpecDb == InitDb /\ [][NextDb]_vars

SpecIperf == InitIperf /\ [][NextIperf]_vars

-----------------------------------------------------------------------------
(* Construction and GetResourceMetadata over every vm_spec of VmSpecs. *)

InitMeta ==
  /\ use_managed_db \in BOOLEAN
  /\ spec_in \in [high_availability : BOOLEAN, database_username : {"pkb-db-user"},
                   database_password : {"s3cret"}, engine_version : {"5.7.21"}]
  /\ spec = spec_in
  /\ vm_spec \in VmSpecs
  /\ mysql_flags \in MysqlFlagsValues
  /\ metadata = {}
  /\ db_state = "new"
  /\ is_managed_db = FALSE
  /\ has_endpoint = FALSE
  /\ endpoint_ = ""
  /\ has_port = FALSE
  /\ port_ = 0
  /\ provisioned = FALSE
  /\ boot_state = "idle"
  /\ boot_pc = 0
  /\ server_log = << >>
  /\ db_last = [op |-> "none", err |-> NoError, val |-> ""]
  /\ failover_requests = 0
  /\ failover_calls = 0
  /\ status_log = << >>
  /\ use_localhost_arg = FALSE
  \* the benchmark part is at rest
  /\ nvms = 0
  /\ run_external = FALSE
  /\ run_internal = [d \in Directions |-> FALSE]
  /\ thread_count = 1
  /\ true_division = TRUE
  /\ prepare_result = "none"
  /\ run_result = "none"
  /\ cleanup_result = "none"
  /\ prep_vm = 0
  /\ prep_step = ""
  /\ pid = [v \in 1..MaxVms |-> 0]
  /\ run_idx = 0
  /\ tries = 0
  /\ results = << >>
  /\ run_return = NothingReturned
  /\ clean_vm = 0
  /\ ip_err = NoIpError
  /\ vm_log = << >>
  /\ ex_stdout = << >>
  /\ ex_threads = 1
  /\ ex_truediv = TRUE
  /\ ex_result = NotParsed

NextMeta ==
  \/ BaseRelationalDb_init
  \/ GetResourceMetadata

SpecMeta == InitMeta /\ [][NextMeta]_vars

-----------------------------------------------------------------------------
(* The parsing of _RunIperf applied to one stdout taken from ExtractInputs. *)

InitExtract ==
  /\ ex_stdout \in ExtractInputs
  /\ ex_threads \in 1..MaxThreads
  /\ ex_truediv \in BOOLEAN
  /\ ex_result = NotParsed
  \* the database part is at rest
  /\ use_managed_db = TRUE
  /\ spec_in = [high_availability |-> FALSE, database_username |-> "root",
                database_password |-> "perfkitbenchmarker", engine_version |-> "5.7"]
  /\ spec = spec_in
  /\ db_state = "new"
  /\ is_managed_db = FALSE
  /\ has_endpoint = FALSE
  /\ endpoint_ = ""
  /\ has_port = FALSE
  /\ port_ = 0
  /\ provisioned = FALSE
  /\ boot_state = "idle"
  /\ boot_pc = 0
  /\ server_log = << >>
  /\ db_last = [op |-> "none", err |-> NoError, val |-> ""]
  /\ failover_requests = 0
  /\ failover_calls = 0
  /\ status_log = << >>
  /\ use_localhost_arg = FALSE
  /\ vm_spec = MachineTypeVmSpec
  /\ mysql_flags = ""
  /\ metadata = {}
  \* the benchmark part is at rest
  /\ nvms = 0
  /\ run_external = FALSE
  /\ run_internal = [d \in Directions |-> FALSE]
  /\ thread_count = 1
  /\ true_division = TRUE
  /\ prepare_result = "none"
  /\ run_result = "none"
  /\ cleanup_result = "none"
  /\ prep_vm = 0
  /\ prep_step = ""
  /\ pid = [v \in 1..MaxVms |-> 0]
  /\ run_idx = 0
  /\ tries = 0
  /\ results = << >>
  /\ run_return = NothingReturned
  /\ clean_vm = 0
  /\ ip_err = NoIpError
  /\ vm_log = << >>

NextExtract == Extract

SpecExtract == InitExtract /\ [][NextExtract]_vars

-----------------------------------------------------------------------------
(* Properties of the database part. *)

Count(log, step) == Cardinality({i \in 1..Len(log) : log[i].step = step})

Steps(log) == [i \in 1..Len(log) |-> log[i].step]

IsPrefix(s, t) == Len(s) <= Len(t) /\ \A i \in 1..Len(s) : s[i] = t[i]

NotChmod(step) == step # "chmod"

\* C2 (as claimed): a read of endpoint or port before the provider has
\* published them (the resource is not Ready) fails with
\* RelationalDbPropertyNotSet, in managed and in unmanaged mode.
C2_ReadBeforeReadyFails ==
  (db_last.op \in {"endpoint", "port"} /\ ~provisioned)
    => db_last.err = "RelationalDbPropertyNotSet"

\* C3: in unmanaged mode the credentials of the spec are 'root' and
\* 'perfkitbenchmarker' whatever the caller requested, and every bootstrap
\* command and connection string built from them carries these values.
C3_UnmanagedCredentialsFixed ==
  (db_state = "constructed" /\ ~use_managed_db) =>
    /\ spec.database_username = "root"
    /\ spec.database_password = "perfkitbenchmarker"
    /\ \A i \in 1..Len(server_log) :
         server_log[i].step \in {"create_user", "grant", "flush"} =>
           /\ server_log[i].user = "root"
           /\ server_log[i].password = "perfkitbenchmarker"
           /\ StartsWith(server_log[i].text,
                "mysql -h localhost -P 3306 -u root -pperfkitbenchmarker -e ")
    /\ (db_last.op = "mysql" /\ db_last.err = NoError) =>
         db_last.val \in
           {"-h " \o h \o " -P 3306 -u root -pperfkitbenchmarker" :
              h \in {"localhost", "", ProviderEndpoint}}
    /\ (db_last.op = "sysbench" /\ db_last.err = NoError) =>
         db_last.val \in
           {"--mysql-host=" \o h
              \o " --mysql-port=3306 --mysql-user=root --mysql-password=\"perfkitbenchmarker\" " :
              h \in {"", ProviderEndpoint}}
    /\ (db_last.op = "psql" /\ db_last.err = NoError) =>
         db_last.val \in
           {"'host=" \o h \o " user=root password=perfkitbenchmarker dbname=sbtest'" :
              h \in {"", ProviderEndpoint}}

C3_Witness ==
  /\ ~use_managed_db
  /\ spec_in.database_username # "root"
  /\ spec_in.database_password # "perfkitbenchmarker"
  /\ boot_state = "done"
  /\ db_last.op = "sysbench"
  /\ db_last.err = NoError

BootstrapOrder ==
  <<"install", "stop", "datadir", "copy", "bind", "restart",
    "create_user", "grant", "flush">>

\* C5: the bootstrap issues install, stop, datadir substitution, data copy,
\* bind-address, restart, create user, grant, flush in this order; every
\* command issued before the last one succeeded; after a failed command
\* nothing more is issued, in particular nothing that undoes a step.
C5_BootstrapOrdered ==
  /\ IsPrefix(SelectSeq(Steps(server_log), NotChmod), BootstrapOrder)
  /\ \A i \in 1..Len(server_log) : i < Len(server_log) => server_log[i].ok
  /\ \A i \in 1..Len(server_log) :
       ~server_log[i].ok => (i = Len(server_log) /\ boot_state = "raised")
  /\ boot_state = "done" =>
       SelectSeq(Steps(server_log), NotChmod) = BootstrapOrder

C5_Witness ==
  /\ boot_state = "raised"
  /\ Len(server_log) = 5
  /\ server_log[5].step = "copy"
  /\ ~server_log[5].ok

-----------------------------------------------------------------------------
(* Properties of the benchmark part. *)

IsClient(e) == e.cmd = "client"

\* The client commands issued so far, in order.
Clients == SelectSeq(vm_log, IsClient)

\* The (direction, mode) combinations a Run over the handles 1 and 2 has to
\* cover, in the order the claims give.
ExpectedCombos ==
  SelectSeq(<< [sender |-> 1, receiver |-> 2, ip_type |-> "external"],
               [sender |-> 1, receiver |-> 2, ip_type |-> "internal"],
               [sender |-> 2, receiver |-> 1, ip_type |-> "external"],
               [sender |-> 2, receiver |-> 1, ip_type |-> "internal"] >>,
            ComboEnabled)

Matches(e, c) ==
  e.vm = c.sender /\ e.peer = c.receiver /\ e.ip_type = c.ip_type

\* Position in ExpectedCombos of the combination a client command belongs
\* to; 0 when it belongs to none.
ComboIndex(e) ==
  LET exp == ExpectedCombos
      js == {j \in 1..Len(exp) : Matches(e, exp[j])}
  IN IF js = {} THEN 0 ELSE CHOOSE j \in js : TRUE

\* The combination index of every client command issued so far, in order.
ClientCombos ==
  LET cl == Clients IN [i \in 1..Len(cl) |-> ComboIndex(cl[i])]

\* The attempts made for the j-th combination, in order.
AttemptsOf(j) ==
  LET Mine(e) == Matches(e, ExpectedCombos[j]) IN SelectSeq(Clients, Mine)

AllFailed(att) == \A i \in 1..Len(att) : ~att[i].ok

FailedThenOk(att) ==
  /\ Len(att) >= 1
  /\ att[Len(att)].ok
  /\ \A i \in 1..(Len(att) - 1) : ~att[i].ok

MetricNames ==
  <<"Transfer", "Bandwidth", "Jitter", "Datagram Lost", "Datagram Total",
    "Datagram percentage">>

\* The six samples at the j-th place of a sample list are those of the j-th
\* combination.
SamplesOfCombo(samples, j) ==
  LET c == ExpectedCombos[j]
  IN /\ Len(samples) >= 6 * j
     /\ \A k \in 1..6 :
          LET smp == samples[6 * (j - 1) + k]
          IN /\ smp.metric = MetricNames[k]
             /\ smp.sending_vm = c.sender
             /\ smp.receiving_vm = c.receiver
             /\ smp.ip_type = c.ip_type

\* C1: a client operation whose attempts 1..4 fail and whose attempt 5
\* returns gives its result to Run and surfaces no retry error; one whose five
\* attempts all fail surfaces RetryExhaustedError carrying the
\* RemoteCommandError of attempt 5; no sixth attempt is made.
C1_RetryFiveAttempts ==
  \A j \in 1..Len(ExpectedCombos) :
    LET att == AttemptsOf(j)
    IN /\ Len(att) <= 5
       /\ (Len(att) = 5 /\ FailedThenOk(att)) =>
            /\ ~(ip_err.kind = "RetryExhaustedError" /\ run_idx = j)
            /\ run_result \in {"running", "ok"} =>
                 (ip_err = NoIpError /\ SamplesOfCombo(results, j))
       /\ (Len(att) = 5 /\ AllFailed(att)) =>
            /\ run_result = "raised"
            /\ run_idx = j
            /\ ip_err.kind = "RetryExhaustedError"
            /\ ip_err.cause.kind = "RemoteCommandError"
            /\ ip_err.cause.attempt = 5
       /\ (ip_err.kind = "RetryExhaustedError" /\ run_idx = j) =>
            (Len(att) = 5 /\ AllFailed(att))

C1_Witness ==
  /\ Len(ExpectedCombos) >= 2
  /\ Len(AttemptsOf(1)) = 5
  /\ FailedThenOk(AttemptsOf(1))
  /\ SamplesOfCombo(run_return.samples, 1)
  /\ run_result = "ok"

C1_WitnessExhausted ==
  /\ Len(ExpectedCombos) >= 1
  /\ Len(AttemptsOf(1)) = 5
  /\ AllFailed(AttemptsOf(1))
  /\ ip_err.kind = "RetryExhaustedError"

\* C7 (as claimed): with two handles, Cleanup surfaces no error whatever
\* happened before, and when it has finished a kill command was issued on
\* every handle that has a recorded process id.
C7_CleanupNeverRaises ==
  nvms = 2 =>
    /\ cleanup_result # "raised"
    /\ cleanup_result = "ok" =>
         \A v \in Vms : pid[v] # 0 =>
           \E i \in 1..Len(vm_log) : vm_log[i].vm = v /\ vm_log[i].cmd = "kill"

\* C8: Prepare on a number of handles other than two raises ValueError (the
\* configuration error of this phase) and nothing was installed, opened or
\* run on any handle, and no process id was recorded.
C8_PrepareRejectsWrongCount ==
  (nvms # 2 /\ prepare_result # "none") =>
    /\ prepare_result = "raised"
    /\ cleanup_result = "none" => ip_err = Raised("Prepare", "ValueError")
    /\ \A i \in 1..Len(vm_log) :
         vm_log[i].op \notin {"Install", "AllowPort", "RemoteCommand"}
    /\ \A v \in 1..MaxVms : pid[v] = 0

C8_Witness ==
  nvms = 3 /\ prepare_result = "raised" /\ ip_err.kind = "ValueError"

\* C9: the client commands of Run come in blocks, one block per enabled
\* combination, in the order (1 to 2, external), (1 to 2, internal),
\* (2 to 1, external), (2 to 1, internal); a block ends with its only
\* successful command before the next block begins; and the list Run returns
\* holds the six samples of each enabled combination, in that order.
C9_RunSequentialInOrder ==
  /\ LET cl == Clients
         ci == ClientCombos
     IN /\ \A i \in 1..Len(cl) : ci[i] # 0
        /\ Len(cl) >= 1 => ci[1] = 1
        /\ \A i \in 1..(Len(cl) - 1) :
             IF cl[i].ok THEN ci[i + 1] = ci[i] + 1 ELSE ci[i + 1] = ci[i]
  /\ run_result = "ok" =>
       /\ run_return.returned
       /\ Len(run_return.samples) = 6 * Len(ExpectedCombos)
       /\ \A j \in 1..Len(ExpectedCombos) :
            /\ SamplesOfCombo(run_return.samples, j)
            /\ FailedThenOk(AttemptsOf(j))

C9_Witness ==
  /\ run_result = "ok"
  /\ Len(ExpectedCombos) = 4
  /\ Len(run_return.samples) = 24
  /\ Len(Clients) > 4

\* C10: once a client operation has failed five times, Run has raised
\* RetryExhaustedError, that fifth command is the last client command issued,
\* and the caller of Run received no sample list.
C10_RunAbortsOnExhaustion ==
  \A j \in 1..Len(ExpectedCombos) :
    LET att == AttemptsOf(j)
    IN (Len(att) >= 5 /\ AllFailed(att)) =>
         /\ run_result = "raised"
         /\ ip_err.phase = "Run"
         /\ ip_err.kind = "RetryExhaustedError"
         /\ LET ci == ClientCombos
            IN /\ ci[Len(ci)] = j
               /\ \A i \in 1..Len(ci) : ci[i] <= j
         /\ ~run_return.returned
         /\ run_return.samples = << >>

C10_Witness ==
  /\ Len(ExpectedCombos) >= 3
  /\ FailedThenOk(AttemptsOf(1))
  /\ Len(AttemptsOf(2)) = 5
  /\ AllFailed(AttemptsOf(2))
  /\ run_result = "raised"
  /\ cleanup_result = "ok"

C11_WitnessHA ==
  /\ spec.high_availability
  /\ db_last.op = "Failover"
  /\ failover_calls = 2

\* C12: in managed mode _IsReadyUnmanaged raises without issuing any command
\* on the server handle, and _InstallMySQLServer raises without installing
\* or issuing anything on it.
C12_ManagedNeverTouchesServer ==
  (db_state = "constructed" /\ is_managed_db) =>
    /\ server_log = << >>
    /\ status_log = << >>
    /\ db_last.op = "_IsReadyUnmanaged" => db_last.err = "Exception"
    /\ db_last.op = "_InstallMySQLServer" =>
         (db_last.err = "Exception" /\ boot_state = "raised")
    /\ boot_state \in {"idle", "raised"}

C12_Witness ==
  /\ is_managed_db
  /\ boot_state = "raised"
  /\ db_last.op = "_IsReadyUnmanaged"
  /\ db_last.err = "Exception"

C12_WitnessUnmanagedQuery ==
  /\ ~is_managed_db
  /\ boot_state = "done"
  /\ Len(status_log) = 2
  /\ db_last.val = "True"

\* C13: whatever was called on the resource (construction, bootstrap,
\* connection-string builders, metadata, failover), the spec object holds
\* what the caller put into it.
C13_SpecNeverMutated ==
  /\ spec = spec_in
  /\ vm_spec \in VmSpecs

C13_WitnessMutated ==
  /\ db_state = "constructed"
  /\ ~is_managed_db
  /\ spec_in.database_username = "pkb-db-user"
  /\ spec.database_username = "root"
  /\ spec.database_password # spec_in.database_password

\* The 0-based index of the last line of ex_stdout that carries the marker
\* (-1 when no line does), and the offset the thread count asks for.
LastSentinel ==
  IF \E i \in 1..Len(ex_stdout) : ex_stdout[i].sentinel
    THEN (CHOOSE i \in 1..Len(ex_stdout) :
            /\ ex_stdout[i].sentinel
            /\ \A j \in (i + 1)..Len(ex_stdout) : ~ex_stdout[j].sentinel) - 1
    ELSE -1
RowOffset == IF ex_threads = 1 THEN 3 ELSE 2

\* The line is a complete result row with a non-zero total.
WellFormedRow(line) ==
  /\ Len(line.fields) >= 9
  /\ line.fields[3].t = "num" /\ line.fields[5].t = "num" /\ line.fields[7].t = "num"
  /\ line.fields[9].t = "ratio" /\ line.fields[9].b > 0

\* The samples carry the columns of this line.
SamplesFrom(samples, line) ==
  /\ Len(samples) = 6
  /\ samples[1].metric = "Transfer" /\ samples[1].value = line.fields[3].w
  /\ samples[1].unit = line.fields[4].w
  /\ samples[2].metric = "Bandwidth" /\ samples[2].value = line.fields[5].w
  /\ samples[3].metric = "Jitter" /\ samples[3].value = line.fields[7].w
  /\ samples[4].metric = "Datagram Lost"
  /\ samples[4].value = ToString(line.fields[9].a)
  /\ samples[5].metric = "Datagram Total"
  /\ samples[5].value = ToString(line.fields[9].b)

\* ex_stdout has the multi-flow shape: its last nine lines are two per-flow
\* rows, each followed by its Sent line, then the sum row, a blank line and
\* the marker.
IsMultiFlowShape ==
  /\ Len(ex_stdout) >= 9
  /\ \E sum \in {SumRow(r[1], r[2]) : r \in Ratios} \cup {ShortRow, GarbledRow} :
       SubSeq(ex_stdout, Len(ex_stdout) - 8, Len(ex_stdout)) = MultiFlow(sum)

\* C14: the parsing anchors on the last line carrying the marker and takes
\* the row 3 lines above it when the thread count is 1 and 2 lines above it
\* when it is larger; on multi-flow output it takes the sum row, never a
\* per-flow row.
C14_AnchorsOnLastSentinel ==
  ex_result.done =>
    /\ (LastSentinel - RowOffset >= 0) =>
         LET line == ex_stdout[LastSentinel - RowOffset + 1]
         IN IF WellFormedRow(line)
              THEN ex_result.err = NoError /\ SamplesFrom(ex_result.samples, line)
              ELSE ex_result.err # NoError /\ ex_result.samples = << >>
    /\ (IsMultiFlowShape /\ ex_threads > 1 /\ ex_result.err = NoError) =>
         /\ ex_result.samples[1].value = "1.39"
         /\ ex_result.samples[1].unit = "GBytes"
         /\ ex_result.samples[3].value \notin {"0.039", "0.052"}

\* The marker was printed twice and the samples come from the row above the
\* second one.
C14_Witness ==
  /\ ex_result.done
  /\ ex_threads = 1
  /\ ex_stdout = SingleFlow(FlowRow("0.037", 1, 4)) \o SingleFlow(FlowRow("0.011", 3, 4))
  /\ ex_result.err = NoError
  /\ ex_result.samples[3].value = "0.011"

C14_WitnessSum ==
  /\ ex_result.done
  /\ ex_threads > 1
  /\ ex_stdout = MultiFlowOutput
  /\ ex_result.samples[4].value = "66761"

\* C15: when ex_stdout has no line carrying the marker, or the marker is so
\* near the top that the row at the offset does not exist, or that row has
\* fewer columns than a result row, the parsing ends in an error and gives
\* no samples: it never gives samples built from some other line.
C15_NoSamplesWithoutAnchoredRow ==
  (/\ ex_result.done
   /\ \/ LastSentinel = -1
      \/ LastSentinel - RowOffset < 0
      \/ Len(ex_stdout[LastSentinel - RowOffset + 1].fields) < 9) =>
    /\ ex_result.err # NoError
    /\ ex_result.samples = << >>

\* The marker is missing and six samples came back, built from the row that
\* the index -3 reaches from the end of the lines.
C15_WitnessWrapped ==
  /\ ex_result.done
  /\ ex_threads = 1
  /\ ex_stdout = Truncated(SingleFlow(FlowRow("0.037", 1, 4)), 1)
  /\ LastSentinel = -1
  /\ ex_result.err = NoError
  /\ Len(ex_result.samples) = 6

\* The line is a complete result row whose lost/total column holds integers
\* with 0 <= lost <= total; total may be 0.
RowWithRatio(line) ==
  /\ Len(line.fields) >= 9
  /\ line.fields[3].t = "num" /\ line.fields[5].t = "num" /\ line.fields[7].t = "num"
  /\ line.fields[9].t = "ratio"
  /\ 0 <= line.fields[9].a /\ line.fields[9].a <= line.fields[9].b

Percentages == {ToString(n) : n \in 0..100}

\* C16: for every anchored result row with 0 <= lost <= total, total = 0
\* included, the parsing gives a 'Datagram percentage' sample whose value is
\* an integer from 0 to 100.
C16_LossPercentageInRange ==
  (/\ ex_result.done
   /\ LastSentinel - RowOffset >= 0
   /\ RowWithRatio(ex_stdout[LastSentinel - RowOffset + 1])) =>
    /\ ex_result.err = NoError
    /\ Len(ex_result.samples) = 6
    /\ ex_result.samples[6].metric = "Datagram percentage"
    /\ ex_result.samples[6].value \in Percentages

\* The same with total > 0 only: this much holds.
C16_LossPercentageInRangeNonZeroTotal ==
  (/\ ex_result.done
   /\ LastSentinel - RowOffset >= 0
   /\ RowWithRatio(ex_stdout[LastSentinel - RowOffset + 1])
   /\ ex_stdout[LastSentinel - RowOffset + 1].fields[9].b > 0) =>
    /\ ex_result.err = NoError
    /\ Len(ex_result.samples) = 6
    /\ ex_result.samples[6].metric = "Datagram percentage"
    /\ ex_result.samples[6].value \in Percentages

\* A row reading 0/0 was parsed and the call raised ZeroDivisionError.
C16_WitnessZeroTotal ==
  /\ ex_result.done
  /\ ex_threads = 1
  /\ ex_stdout = SingleFlow(FlowRow("0.037", 0, 0))
  /\ ex_result.err = "ZeroDivisionError"
  /\ ex_result.samples = << >>

\* The three sizing schemes: which of them vm_spec resolves, the keys each
\* one puts into the map, and the sizing keys a map carries.
MachineTypeResolves ==
  vm_spec.machine_type # AttrAbsent /\ vm_spec.machine_type # AttrNone
CpusMemoryResolves ==
  vm_spec.cpus # AttrAbsent /\ vm_spec.memory # AttrAbsent
TierComputeUnitsResolves ==
  vm_spec.tier # AttrAbsent /\ vm_spec.compute_units # AttrAbsent

ResolvingSchemes ==
  (IF MachineTypeResolves THEN {{"machine_type"}} ELSE {}) \cup
  (IF CpusMemoryResolves THEN {{"cpus", "memory"}} ELSE {}) \cup
  (IF TierComputeUnitsResolves THEN {{"tier", "compute_units"}} ELSE {})

SizingKeys == {"machine_type", "cpus", "memory", "tier", "compute_units"}

SizingKeysOf(map) == {kv[1] : kv \in map} \cap SizingKeys

MetadataCalled == db_last.op = "GetResourceMetadata"

\* C17: GetResourceMetadata raises RelationalDbPropertyNotSet when none of
\* the three sizing schemes resolves; when it returns a map, the sizing keys
\* of the map are those of one scheme that resolves, with the values of
\* vm_spec, and no sizing key of another scheme; with exactly one scheme
\* resolving it returns a map.
C17_MetadataSizingOfOneScheme ==
  MetadataCalled =>
    /\ ResolvingSchemes = {} =>
         (db_last.err = "RelationalDbPropertyNotSet" /\ metadata = {})
    /\ db_last.err = NoError =>
         /\ SizingKeysOf(metadata) \in ResolvingSchemes
         /\ \A kv \in metadata : kv[1] \in SizingKeys => kv[2] = vm_spec[kv[1]]
    /\ Cardinality(ResolvingSchemes) = 1 => db_last.err = NoError
    /\ db_last.err \in {NoError, "RelationalDbPropertyNotSet"}

C17_Witness ==
  /\ MetadataCalled
  /\ ResolvingSchemes = {{"tier", "compute_units"}}
  /\ vm_spec.machine_type = AttrNone
  /\ vm_spec.cpus = "4"
  /\ SizingKeysOf(metadata) = {"tier", "compute_units"}

C17_WitnessNoneResolves ==
  /\ MetadataCalled
  /\ ResolvingSchemes = {}
  /\ vm_spec.memory = "7680MiB"
  /\ db_last.err = "RelationalDbPropertyNotSet"

Contains(s, sub) ==
  \E i \in 1..(Len(s) - Len(sub) + 1) : SubSeq(s, i, i + Len(sub) - 1) = sub

\* C19: the mysql and sysbench builders put the port suffix (' -P 3306',
\* ' --mysql-port=3306') into the string exactly when the resource is
\* unmanaged; host, user and password stand at fixed places; the mysql
\* builder takes 'localhost' as host exactly when use_localhost is true, and
\* the endpoint otherwise.
C19_PortSuffixIffUnmanaged ==
  /\ (db_last.op = "mysql" /\ db_last.err = NoError) =>
       LET host == IF use_localhost_arg THEN "localhost" ELSE endpoint_
           rest == " -u " \o spec.database_username \o " -p" \o spec.database_password
       IN /\ Contains(db_last.val, " -P 3306") <=> ~is_managed_db
          /\ db_last.val =
               IF is_managed_db THEN "-h " \o host \o rest
                                ELSE "-h " \o host \o " -P 3306" \o rest
  /\ (db_last.op = "sysbench" /\ db_last.err = NoError) =>
       LET rest == " --mysql-user=" \o spec.database_username
                     \o " --mysql-password=\"" \o spec.database_password \o "\" "
       IN /\ Contains(db_last.val, " --mysql-port=3306") <=> ~is_managed_db
          /\ db_last.val =
               IF is_managed_db
                 THEN "--mysql-host=" \o endpoint_ \o rest
                 ELSE "--mysql-host=" \o endpoint_ \o " --mysql-port=3306" \o rest

C19_Witness ==
  /\ is_managed_db
  /\ db_last.op = "mysql"
  /\ ~use_localhost_arg
  /\ db_last.val = "-h 10.0.0.5 -u pkb-db-user -ps3cret"

C19_WitnessLocalhost ==
  /\ ~is_managed_db
  /\ db_last.op = "mysql"
  /\ use_localhost_arg
  /\ db_last.val = "-h localhost -P 3306 -u root -pperfkitbenchmarker"

C19_WitnessSysbench ==
  /\ ~is_managed_db
  /\ db_last.op = "sysbench"
  /\ db_last.val =
       "--mysql-host= --mysql-port=3306 --mysql-user=root --mysql-password=\"perfkitbenchmarker\" "

\* C20: for one (direction, mode) the client command is issued at most 5
\* times; every failed attempt, exit status or timeout alike, uses up one
\* attempt of the budget; every attempt issues the same whole command again;
\* after an attempt that succeeded no further attempt is made.
C20_AtMostFiveWholeAttempts ==
  /\ \A j \in 1..Len(ExpectedCombos) :
       LET att == AttemptsOf(j)
       IN /\ Len(att) <= 5
          /\ \A i \in 1..Len(att) :
               /\ att[i] = [att[1] EXCEPT !.ok = att[i].ok]
               /\ att[i].ok => i = Len(att)
  /\ run_result = "running" =>
       LET att == AttemptsOf(run_idx)
       IN AllFailed(att) /\ tries = Len(att) /\ tries < 5
  /\ ip_err.kind = "RetryExhaustedError" =>
       /\ ip_err.cause.reason \in {"exit", "timeout"}
       /\ ip_err.cause.attempt = Len(AttemptsOf(run_idx))
       /\ tries = 5

\* The first client operation succeeded at its third attempt and was not
\* issued again; the second one timed out at its fifth attempt.
C20_Witness ==
  /\ Len(ExpectedCombos) >= 2
  /\ Len(AttemptsOf(1)) = 3
  /\ FailedThenOk(AttemptsOf(1))
  /\ Len(AttemptsOf(2)) = 5
  /\ AllFailed(AttemptsOf(2))
  /\ ip_err.kind = "RetryExhaustedError"
  /\ ip_err.cause.reason = "timeout"

\* The integers nearest to lost * 100 / total: one value, or the two
\* neighbours when the quotient lies exactly between them.
NearestPercentages(lost, total) ==
  {q \in 0..100 :
     LET d == lost * 100 - q * total
     IN 2 * (IF d < 0 THEN -d ELSE d) <= total}

\* C21: for every anchored result row with total > 0 and 0 <= lost <= total
\* the 'Datagram percentage' sample is lost * 100 / total rounded to the
\* nearest integer (63 for 57685/91386, 37 for 66761/182603), not the
\* quotient cut down to its integer part.
C21_LossPercentageRoundedToNearest ==
  (/\ ex_result.done
   /\ LastSentinel - RowOffset >= 0
   /\ RowWithRatio(ex_stdout[LastSentinel - RowOffset + 1])
   /\ ex_stdout[LastSentinel - RowOffset + 1].fields[9].b > 0) =>
    LET ratio == ex_stdout[LastSentinel - RowOffset + 1].fields[9]
    IN /\ ex_result.err = NoError
       /\ ex_result.samples[6].metric = "Datagram percentage"
       /\ ex_result.samples[6].value \in
            {ToString(q) : q \in NearestPercentages(ratio.a, ratio.b)}

\* The same where the interpreter divides two ints as Python 3 does: this
\* much holds.
C21_RoundedToNearestUnderTrueDivision ==
  ex_truediv => C21_LossPercentageRoundedToNearest

\* The [SUM] row of the multi-flow example, 66761/182603, parsed where the
\* quotient of two ints is floored: the sample reads 36.
C21_WitnessTruncated ==
  /\ ex_result.done
  /\ ex_threads > 1
  /\ ~ex_truediv
  /\ ex_stdout = MultiFlowOutput
  /\ ex_result.err = NoError
  /\ ex_result.samples[6].value = "36"

\* The same row under Python 3 division: the sample reads 37.
C21_WitnessNearest ==
  /\ ex_result.done
  /\ ex_threads > 1
  /\ ex_truediv
  /\ ex_stdout = MultiFlowOutput
  /\ ex_result.samples[6].value = "37"

\* The step of Prepare an entry of vm_log stands for; "" for the entries of
\* Run and Cleanup.
PrepareStep(e) ==
  IF e.op = "Install" THEN "install"
  ELSE IF e.op = "AllowPort" THEN "allow"
  ELSE IF e.cmd \in {"server", "sysctl"} THEN e.cmd
  ELSE ""

IsPrepareEntry(e) == PrepareStep(e) # ""

\* What Prepare issued so far, in order.
PrepareLog == SelectSeq(vm_log, IsPrepareEntry)

\* The order of Prepare on one handle: the code queries sysctl once more
\* after the process id is recorded.
PrepareOrder ==
  IF run_external THEN <<"install", "allow", "server", "sysctl">>
                  ELSE <<"install", "server", "sysctl">>

\* C22: Prepare works on handle 1, then on handle 2; on each handle it
\* installs the tool, opens the port only when external addressing is on,
\* starts the server and records its process id, in this order; when Prepare
\* has ended without error both handles have a process id; when it failed on
\* handle 2, handle 1 keeps its process id and no kill was issued on it.
C22_PrepareOrderPerHandle ==
  LET log == PrepareLog
  IN /\ \A i \in 1..Len(log) : \A k \in (i + 1)..Len(log) : log[i].vm <= log[k].vm
     /\ \A v \in 1..2 :
          LET Mine(e) == e.vm = v
              mine == SelectSeq(log, Mine)
          IN /\ IsPrefix([i \in 1..Len(mine) |-> PrepareStep(mine[i])], PrepareOrder)
             /\ \A i \in 1..(Len(mine) - 1) : mine[i].ok
             /\ pid[v] # 0 <=>
                  \E i \in 1..Len(mine) : PrepareStep(mine[i]) = "server" /\ mine[i].ok
     /\ prepare_result = "ok" => (pid[1] # 0 /\ pid[2] # 0)
     /\ (prepare_result = "raised" /\ nvms = 2 /\ prep_vm = 2) =>
          /\ pid[1] # 0
          /\ cleanup_result = "none" =>
               \A i \in 1..Len(vm_log) : vm_log[i].cmd # "kill"

\* With external addressing on, Prepare went through handle 1 and failed on
\* handle 2 when opening the port.
C22_Witness ==
  /\ run_external
  /\ prepare_result = "raised"
  /\ prep_vm = 2
  /\ ip_err.kind = "AllowPortError"
  /\ pid[1] # 0
  /\ pid[2] = 0
  /\ Len(PrepareLog) = 6
  /\ cleanup_result = "none"

C22_WitnessBothRecorded ==
  /\ ~run_external
  /\ prepare_result = "ok"
  /\ pid[1] # 0 /\ pid[2] # 0
  /\ Len(PrepareLog) = 6

\* C23: on every constructed unmanaged resource, whatever was called before
\* and however often Failover is called, Failover fails and the provider's
\* failover routine is never called.
C23_UnmanagedFailoverAlwaysFails ==
  (db_state = "constructed" /\ ~is_managed_db) =>
    /\ ~spec.high_availability
    /\ spec.high_availability = spec_in.high_availability
    /\ failover_calls = 0
    /\ db_last.op = "Failover" => db_last.err # NoError

\* Failover was called twice on an unmanaged resource whose bootstrap is
\* done.
C23_Witness ==
  /\ db_state = "constructed"
  /\ ~is_managed_db
  /\ boot_state = "done"
  /\ failover_requests = 2
  /\ db_last.op = "Failover"
  /\ db_last.err = "Exception"

====
